---- MODULE Spec2Model ----
(***************************************************************************)
(* The message processing pipeline of src/main.py (PersonalEmailReader):   *)
(* the outer loop run(), the per-message pipeline process_message(), the   *)
(* idempotency check is_email_processed(), the tracker                     *)
(* track_email_processing() and the archive action archive_email().        *)
(*                                                                         *)
(* The mail service, the completion service and the tracking table are     *)
(* external: every call to one of them is a step whose outcome (a reply or *)
(* a raised exception) is chosen nondeterministically.  The tracking table *)
(* and the mailbox labels outlive a run; everything else is per instance   *)
(* of the program.  The failures of a behaviour are counted and bounded by *)
(* MaxFaults, which keeps the table and the counters finite: a message is  *)
(* processed again only after a failure.                                   *)
(***************************************************************************)
EXTENDS Integers, Sequences, FiniteSets, Bags, TLC

\* ---------------------------------------------------------------- bounds
MaxFaults == 3   \* failures the external services show in one behaviour
MaxText == 4     \* tokens of a completion text
MaxFrom == 5     \* characters of a From header
MaxParts == 2    \* parts of a message
MaxWords == 1001 \* words of a body

\* ------------------------------------------------------ program constants
MAX_EMAILS_TO_PROCESS == 10
CHECK_FREQUENCY == 10
max_retries == 3
RETRY_PAUSE == 1

\* ------------------------------------------------------------ vocabulary
\* The instances of the program that share the table and the mailbox; Spec
\* and ContractSpec run one of them.
Instances == {"A", "B"}
Solo == {"A"}

MsgIds == {"m1", "m2"}          \* the message ids of the mailbox
NoId == "no id"                 \* a listed entry that carries no 'id' key
Entries == MsgIds \cup {NoId}
Labels == {"INBOX", "UNREAD", "STARRED"}
Statuses == {"kept", "archived", "archive_failed", "error"}

BoundedSeq(S, n) == UNION {[1..k -> S] : k \in 0..n}

\* What json.loads can hand back to process_message: None, or a dict whose
\* 'should_archive' entry is missing or is a JSON value of some type.
JsonValues ==
    { [t |-> "bool", v |-> "true"], [t |-> "bool", v |-> "false"],
      [t |-> "str",  v |-> "false"], [t |-> "num",  v |-> "0"] }
Missing == [t |-> "missing", v |-> ""]
None == [kind |-> "None", should_archive |-> Missing]
AnalysisValues ==
    {None} \cup { [kind |-> "dict", should_archive |-> j] : j \in JsonValues \cup {Missing} }

\* Python truthiness of analysis.get('should_archive')
Truthy(j) ==
    CASE j.t = "bool" -> j.v = "true"
      [] j.t = "str"  -> j.v # ""
      [] j.t = "num"  -> j.v # "0"
      [] OTHER        -> FALSE

\* ------------------------------------------------- the classifier's answer
\* The text of a completion, as far as lines 227-235 look at it: a sequence
\* of braces, fields of a JSON object and other text.
FieldTokens == {"T", "F", "S", "N", "O"}   \* "should_archive": true | false |
                                           \* "false" | 0, and "other": 1
TextTokens == {"{", "}", "x"} \cup FieldTokens

\* str.find and str.rfind: the first and the last position of c, -1 for none,
\* counted from 0 as Python counts.
find(s, c) ==
    LET at == {i \in 1..Len(s) : s[i] = c}
    IN IF at = {} THEN -1 ELSE (CHOOSE i \in at : \A j \in at : i <= j) - 1

rfind(s, c) ==
    LET at == {i \in 1..Len(s) : s[i] = c}
    IN IF at = {} THEN -1 ELSE (CHOOSE i \in at : \A j \in at : i >= j) - 1

\* Python's s[a:b] for a, b >= -1: a negative index counts from the end.
Slice(s, a, b) ==
    LET lo == IF a < 0 THEN Len(s) + a ELSE a
        hi == IF b < 0 THEN Len(s) + b ELSE b
        from == IF lo < 0 THEN 0 ELSE lo
        to == IF hi > Len(s) THEN Len(s) ELSE hi
    IN IF from >= to THEN << >> ELSE SubSeq(s, from + 1, to)

\* line 229: response_text[response_text.find('{'):response_text.rfind('}')+1]
Clean(text) == Slice(text, find(text, "{"), rfind(text, "}") + 1)

ValueOf(tok) ==
    CASE tok = "T" -> [t |-> "bool", v |-> "true"]
      [] tok = "F" -> [t |-> "bool", v |-> "false"]
      [] tok = "S" -> [t |-> "str",  v |-> "false"]
      [] tok = "N" -> [t |-> "num",  v |-> "0"]

\* json.loads (line 232): an object is a pair of braces around fields; of a
\* repeated key the last value stays.  Anything else is a JSONDecodeError.
IsJsonObject(s) ==
    /\ Len(s) >= 2
    /\ s[1] = "{" /\ s[Len(s)] = "}"
    /\ \A i \in 2..(Len(s) - 1) : s[i] \in FieldTokens

loads(s) ==
    LET at == {i \in 1..Len(s) : s[i] \in FieldTokens \ {"O"}}
    IN [kind |-> "dict",
        should_archive |-> IF at = {} THEN Missing
                           ELSE ValueOf(s[CHOOSE i \in at : \A j \in at : i >= j])]

\* What a try block gives: a value, or the exception that left it.
Returned(v) == [exc |-> "none", value |-> v]
Raised(e) == [exc |-> e, value |-> None]

\* lines 233-235: except json.JSONDecodeError: return None
CatchJSONDecodeError(r) == IF r.exc = "JSONDecodeError" THEN Returned(None) ELSE r

AnalyzeError_escapes(r) == r

\* lines 237-239: except Exception: return None
CatchAnalyzeError(r) == IF r.exc # "none" THEN Returned(None) ELSE r

\* A call of the classifier: is the API key set, does the completion request
\* succeed, and what text it answers.
ClassifierCall(key, ok, text) == [key |-> key, request_ok |-> ok, text |-> text]

\* analyze_email, lines 198-239
AnalyzeEmail(call) ==
    CatchAnalyzeError(
        IF ~call.key THEN Raised("ValueError")
        ELSE IF ~call.request_ok THEN Raised("Exception")
        ELSE CatchJSONDecodeError(
                 IF IsJsonObject(Clean(call.text))
                 THEN Returned(loads(Clean(call.text)))
                 ELSE Raised("JSONDecodeError")))

\* --------------------------------------------------------- the normalizer
\* A header value is a sequence of characters (a text the code only passes
\* on is one item); a body text is a sequence of
\* items: WS is a run of whitespace, BadByte a byte that is not UTF-8, every
\* other item is a word.  Two words of a text are separated by WS.
WS == 0
BadByte == -1
WordLimit == 1000
NoName == "no name"              \* a header without a 'name' key

Header(name, value) == [name |-> name, value |-> value]

\* inline data: is it base64 at all, and the bytes it encodes
Data(b64_ok, bytes) == [b64_ok |-> b64_ok, bytes |-> bytes]

\* a part or the top-level body: the media type and, if present, the data
Part(mimeType, has_data, data) == [mimeType |-> mimeType, has_data |-> has_data, data |-> data]
NoBody == [present |-> FALSE, has_data |-> FALSE, data |-> Data(TRUE, << >>)]
Body(has_data, data) == [present |-> TRUE, has_data |-> has_data, data |-> data]

\* the raw message of messages().get
Message(has_payload, has_headers, headers, parts, body) ==
    [has_payload |-> has_payload, has_headers |-> has_headers, headers |-> headers,
     parts |-> parts, body |-> body]

\* a message with payload and headers
Plain(headers, parts, body) == Message(TRUE, TRUE, headers, parts, body)

\* str.lower of a header name
Lower(name) ==
    CASE name \in {"From", "FROM", "from"} -> "from"
      [] name \in {"Subject", "subject"} -> "subject"
      [] name \in {"Date", "date"} -> "date"
      [] OTHER -> name

\* the first of the positions at, 0 for none
First(at) == IF at = {} THEN 0 ELSE CHOOSE i \in at : \A j \in at : i <= j

\* lines 159-161: next((h['value'] for h in headers if h['name'].lower() == name), default);
\* the search stops at the first match and raises KeyError at a header
\* without a name that it reaches before.
HeaderSearch(headers, name, default) ==
    LET hit == First({i \in 1..Len(headers) :
                         headers[i].name # NoName /\ Lower(headers[i].name) = name})
        bad == First({i \in 1..Len(headers) : headers[i].name = NoName})
    IN IF bad # 0 /\ (hit = 0 \/ bad < hit) THEN Raised("KeyError")
       ELSE [exc |-> "none", value |-> IF hit = 0 THEN default ELSE headers[hit].value]

\* c in s
Contains(s, c) == \E i \in 1..Len(s) : s[i] = c

\* s.split(c)[0]: what stands before the first c, all of s without one
SplitHead(s, c) ==
    LET i == First({k \in 1..Len(s) : s[k] = c})
    IN IF i = 0 THEN s ELSE SubSeq(s, 1, i - 1)

\* s.split(c)[1], for an s that holds c: what stands between the first c and
\* the second, or the end
SplitSecond(s, c) ==
    LET i == First({k \in 1..Len(s) : s[k] = c})
    IN SplitHead(SubSeq(s, i + 1, Len(s)), c)

\* str.strip, ws being the whitespace
Strip(s, ws) ==
    LET ink == {i \in 1..Len(s) : s[i] # ws}
    IN IF ink = {} THEN << >>
       ELSE SubSeq(s, CHOOSE i \in ink : \A j \in ink : i <= j,
                      CHOOSE i \in ink : \A j \in ink : i >= j)

\* line 164: '<' in from_header and '>' in from_header
SenderTest(h) == Contains(h, "<") /\ Contains(h, ">")

\* lines 164-169
SenderName(h) == IF SenderTest(h) THEN Strip(SplitHead(h, "<"), " ") ELSE << >>

SenderEmail(h) ==
    IF SenderTest(h) THEN Strip(SplitHead(SplitSecond(h, "<"), ">"), " ")
    ELSE Strip(h, " ")

\* base64.urlsafe_b64decode(...).decode('utf-8', errors='ignore'), lines 178
\* and 183: bytes that are not UTF-8 are dropped
Decode(data) == SelectSeq(data.bytes, LAMBDA b : b # BadByte)

\* str.split() and ' '.join(...)
Split(text) == SelectSeq(text, LAMBDA x : x # WS)

Join(words) ==
    [i \in 1..(IF words = << >> THEN 0 ELSE 2 * Len(words) - 1) |->
        IF i % 2 = 1 THEN words[(i + 1) \div 2] ELSE WS]

Limit_off_by_one(words) == SubSeq(words, 1, WordLimit - 1)

\* line 190: words[:1000]
Limit(words) == SubSeq(words, 1, WordLimit)

\* lines 186-192
CleanAndLimit(content) ==
    LET collapsed == Join(Split(content))
        words == Split(collapsed)
    IN Strip(IF Len(words) > WordLimit THEN Join(Limit(words)) ELSE collapsed, WS)

\* line 177: part.get('mimeType') == 'text/plain' and 'data' in part.get('body', {})
IsPlainWithData(part) == part.mimeType = "text/plain" /\ part.has_data

\* line 182: not content (and the top-level body carries data)
FallsBack(parts, content) == content = << >>

\* lines 172-183: the content, or the exception of a decode
SelectContent(m) ==
    LET p == First({i \in 1..Len(m.parts) : IsPlainWithData(m.parts[i])})
        fromPart == IF p = 0 THEN << >> ELSE Decode(m.parts[p].data)
    IN IF p # 0 /\ ~m.parts[p].data.b64_ok THEN Raised("binascii.Error")
       ELSE IF FallsBack(m.parts, fromPart) /\ m.body.present /\ m.body.has_data
            THEN IF ~m.body.data.b64_ok THEN Raised("binascii.Error")
                 ELSE Returned(Decode(m.body.data))
            ELSE Returned(fromPart)

NormalizedContent(subject, sender_name, sender_email, date, body) ==
    [subject |-> subject, sender_name |-> sender_name, sender_email |-> sender_email,
     date |-> date, body |-> body]

\* line 196: return '', '', '', '', ''
EmptyContent == NormalizedContent(<< >>, << >>, << >>, << >>, << >>)

ExtractError_escapes(r) == r

\* lines 194-196: except Exception
CatchExtractError(r) ==
    IF r.exc # "none" THEN [exc |-> "none", value |-> EmptyContent] ELSE r

\* _extract_email_content, lines 154-196
ExtractEmailContent(m) ==
    CatchExtractError(
        IF ~m.has_payload \/ ~m.has_headers THEN Raised("KeyError")
        ELSE LET subject == HeaderSearch(m.headers, "subject", << "No Subject" >>)
                 from_header == HeaderSearch(m.headers, "from", << >>)
                 date == HeaderSearch(m.headers, "date", << >>)
                 content == SelectContent(m)
             IN IF subject.exc # "none" THEN subject
                ELSE IF from_header.exc # "none" THEN from_header
                ELSE IF date.exc # "none" THEN date
                ELSE IF content.exc # "none" THEN content
                ELSE [exc |-> "none",
                      value |-> NormalizedContent(subject.value,
                                                  SenderName(from_header.value),
                                                  SenderEmail(from_header.value),
                                                  date.value,
                                                  CleanAndLimit(content.value))])

\* ------------------------------------------------- calls of pure functions
\* no call; otherwise the function, its argument, what the first and the
\* latest call gave, and how often it was called with this argument
NoJob == [fn |-> "none", arg |-> << >>, first |-> << >>, out |-> << >>, calls |-> 0]
NewJob(fn, arg) == [fn |-> fn, arg |-> arg, first |-> << >>, out |-> << >>, calls |-> 0]

VARIABLES
    tracking,       \* the table lavish_emails_tracking: a bag of rows
    labels,         \* mailbox: message id -> its label set
    faults,         \* failures of the external services so far
    archive_calls,  \* message id -> archive_email calls made for it so far
    live_mode,      \* run()'s argument
    rpc,            \* where run() is
    messages,       \* run()'s candidate list of this pass
    idx,            \* position of the for loop in messages
    ppc,            \* where process_message() is
    message_id,     \* process_message()'s argument
    analysis,       \* the classifier's decision
    status,         \* track_email_processing()'s argument
    retry_count,    \* track_email_processing()'s counter
    inv,            \* what the current process_message() invocation has done
    pass,           \* what the current run has done
    job             \* a call of a pure function: its input and what it gave

vars == << tracking, labels, faults, archive_calls, live_mode, rpc, messages, idx, ppc,
           message_id, analysis, status, retry_count, inv, pass, job >>

shared == << tracking, labels, archive_calls >>

\* an external call may fail only while the behaviour's failures are not used up
MayFail == faults < MaxFaults
Failed(bad) == faults' = IF bad THEN faults + 1 ELSE faults

\* ------------------------------------------------------ the tracking table
Row(m, s) == [email_message_id |-> m, processing_status |-> s]

RowsOf(table, m) ==
    [r \in {x \in BagToSet(table) : x.email_message_id = m} |-> table[r]]

RowCount(table, m) == BagCardinality(RowsOf(table, m))

Insert(table, m, s) == table (+) SetToBag({Row(m, s)})

\* ------------------------------------------------------------ observation
NewInv(had) ==
    [ had |-> had,                 \* a row for message_id existed at the call
      query_failed |-> FALSE,      \* the select of is_email_processed raised
      skipped |-> FALSE,           \* process_message returned at line 304
      fetch |-> 0,                 \* messages().get calls
      fetch_failed |-> FALSE,
      malformed |-> FALSE,         \* the fetched message lacks its structure
      degraded |-> FALSE,          \* _extract_email_content gave the empty record
      classify |-> 0,              \* analyze_email calls
      archive |-> 0,               \* archive_email calls
      archive_ok |-> FALSE,        \* what the archive_email call returned
      track |-> 0,                 \* track_email_processing calls
      insert |-> 0,                \* insert attempts
      landed |-> 0,                \* rows written
      paused |-> 0 ]               \* seconds slept between insert attempts

NewPass ==
    [ lists |-> 0,                 \* listing calls of this run: 0, 1, or 2 for more
      napped |-> 0,                \* seconds slept since the last listing (capped)
      processed |-> << >>,         \* ids handed to process_message this pass
      aborted |-> FALSE,           \* the pass ended in run()'s except clause
      list_failed |-> FALSE,       \* the listing call of this pass raised
      archives |-> 0,              \* archive_email calls of this pass
      plain |-> FALSE ]            \* nothing recorded before, nothing failed,
                                   \* every decision should_archive = false

\* -------------------------------------------------------------- the store
is_email_processed_always(table, m, query_ok) == TRUE

is_email_processed_closed(table, m, query_ok) ==
    IF query_ok THEN RowCount(table, m) > 0 ELSE TRUE

\* is_email_processed (lines 257-269): len(response.data) > 0, and False when
\* the select raises.
is_email_processed(table, m, query_ok) ==
    IF query_ok THEN RowCount(table, m) > 0 ELSE FALSE

\* ---------------------------------------------------------- the decision
ShouldArchive_any_dict(a) == a.kind = "dict"

\* line 327: analysis and analysis.get('should_archive')
ShouldArchive(a) == a.kind = "dict" /\ Truthy(a.should_archive)

\* lines 329-334: the status that follows the archive action's result
ArchiveStatus(ok) == IF ok THEN "archived" ELSE "archive_failed"

\* line 337: the status of a message that is not to be archived
KeptStatus == "kept"

ErrorStatus_kept == "kept"

\* line 341: the status the except clause of process_message records
ErrorStatus == "error"

ArchivedLabels_all(ls) == {}

\* lines 248-249: removeLabelIds ['INBOX', 'UNREAD'], addLabelIds []
ArchivedLabels(ls) == (ls \ {"INBOX", "UNREAD"}) \cup {}

\* ------------------------------------------------------------ the replies
Distinct(s) == \A i, j \in 1..Len(s) : i # j => s[i] # s[j]

\* messages().list (lines 132-149): batch mode asks for at most
\* MAX_EMAILS_TO_PROCESS results; the reply holds each message once.  What
\* the mailbox matches changes outside the program (mail arrives, the owner
\* marks a message unread again), so in either mode any such reply may come.
\* The entries of a reply are drawn from `entries`.
Replies(live, entries) ==
    { s \in BoundedSeq(entries, Cardinality(entries)) :
        /\ Distinct(s)
        /\ (~live => Len(s) <= MAX_EMAILS_TO_PROCESS) }

IdsOf(s) == SelectSeq(s, LAMBDA e : e # NoId)

\* ------------------------------------------------------------------- Init
ProgramInit ==
    /\ tracking = EmptyBag
    /\ labels = [m \in MsgIds |-> Labels]
    /\ archive_calls = [m \in MsgIds |-> 0]
    /\ faults = 0
    /\ live_mode = [i \in Instances |-> FALSE]
    /\ rpc = [i \in Instances |-> "idle"]
    /\ messages = [i \in Instances |-> << >>]
    /\ idx = [i \in Instances |-> 1]
    /\ ppc = [i \in Instances |-> "none"]
    /\ message_id = [i \in Instances |-> NoId]
    /\ analysis = [i \in Instances |-> None]
    /\ status = [i \in Instances |-> "kept"]
    /\ retry_count = [i \in Instances |-> 0]
    /\ inv = [i \in Instances |-> NewInv(FALSE)]
    /\ pass = [i \in Instances |-> NewPass]

Init == ProgramInit /\ job = NoJob

\* ------------------------------------------------------------------ run()
AfterPass_no_break(live) == "sleep"

AfterAbort_stops(live) == "done"

\* lines 358-363: after the for loop batch mode breaks, live mode sleeps
AfterPass(live) == IF ~live THEN "done" ELSE "sleep"

\* lines 365-369: the same choice in the except clause
AfterAbort(live) == IF ~live THEN "done" ELSE "sleep"


\* lines 343-349 (and 377-378): a run starts, in either mode; the table and
\* the mailbox are what earlier runs left.
run(self) ==
    /\ rpc[self] \in {"idle", "done"}
    /\ \E lm \in BOOLEAN : live_mode' = [live_mode EXCEPT ![self] = lm]
    /\ rpc' = [rpc EXCEPT ![self] = "list"]
    /\ messages' = [messages EXCEPT ![self] = << >>]
    /\ idx' = [idx EXCEPT ![self] = 1]
    /\ pass' = [pass EXCEPT ![self] = NewPass]
    /\ UNCHANGED << job, shared, faults, ppc, message_id, analysis, status, retry_count, inv >>

OnListError_stale == << "m1" >>

\* line 152: return []
OnListError == << >>

\* line 351, get_recent_messages (lines 129-152): the listing call; a failure
\* of the call gives the empty list.
get_recent_messages(self, entries) ==
    /\ rpc[self] = "list"
    /\ \E ok \in BOOLEAN :
       \E reply \in Replies(live_mode[self], entries) :
          LET got == IF ok THEN reply ELSE OnListError
              bad == ~ok \/ got # IdsOf(got)
          IN
          /\ ~ok => reply = << >>
          /\ bad => MayFail
          /\ Failed(bad)
          /\ messages' = [messages EXCEPT ![self] = got]
          /\ pass' = [pass EXCEPT ![self] =
                [@ EXCEPT !.lists = IF @ = 0 THEN 1 ELSE 2,
                          !.napped = 0,
                          !.processed = << >>,
                          !.aborted = FALSE,
                          !.list_failed = ~ok,
                          !.archives = 0,
                          !.plain = /\ ~bad
                                    /\ \A k \in 1..Len(got) : RowCount(tracking, got[k]) = 0]]
    /\ idx' = [idx EXCEPT ![self] = 1]
    /\ rpc' = [rpc EXCEPT ![self] = "iter"]
    /\ UNCHANGED << job, shared, live_mode, ppc, message_id, analysis, status, retry_count, inv >>

\* lines 354-356: the for loop hands the next candidate to process_message.
call_process_message(self) ==
    /\ rpc[self] = "iter" /\ ppc[self] = "none"
    /\ idx[self] <= Len(messages[self])
    /\ messages[self][idx[self]] # NoId
    /\ message_id' = [message_id EXCEPT ![self] = messages[self][idx[self]]]
    /\ ppc' = [ppc EXCEPT ![self] = "check"]
    /\ inv' = [inv EXCEPT ![self] = NewInv(RowCount(tracking, messages[self][idx[self]]) > 0)]
    /\ pass' = [pass EXCEPT ![self] =
          [@ EXCEPT !.processed = Append(@, messages[self][idx[self]])]]
    /\ UNCHANGED << job, shared, faults, live_mode, rpc, messages, idx, analysis, status,
                    retry_count >>

\* line 356 raising (message['id'] of an entry without an id): the exception
\* escapes the for loop into run()'s except clause, lines 365-369.
loop_raises(self) ==
    /\ rpc[self] = "iter" /\ ppc[self] = "none"
    /\ idx[self] <= Len(messages[self])
    /\ messages[self][idx[self]] = NoId
    /\ pass' = [pass EXCEPT ![self] = [@ EXCEPT !.aborted = TRUE]]
    /\ rpc' = [rpc EXCEPT ![self] = AfterAbort(live_mode[self])]
    /\ UNCHANGED << job, shared, faults, live_mode, messages, idx, ppc, message_id, analysis,
                    status, retry_count, inv >>

\* lines 358-362: the for loop is over; batch mode breaks, live mode goes to sleep.
loop_ends(self) ==
    /\ rpc[self] = "iter" /\ ppc[self] = "none"
    /\ idx[self] > Len(messages[self])
    /\ rpc' = [rpc EXCEPT ![self] = AfterPass(live_mode[self])]
    /\ UNCHANGED << job, shared, faults, live_mode, messages, idx, ppc, message_id, analysis,
                    status, retry_count, inv, pass >>

\* lines 363 and 369: time.sleep(CHECK_FREQUENCY), then the while loop again.
sleep(self) ==
    /\ rpc[self] = "sleep"
    /\ pass' = [pass EXCEPT ![self] =
          [@ EXCEPT !.napped = IF @ = 0 THEN CHECK_FREQUENCY
                                        ELSE 2 * CHECK_FREQUENCY]]
    /\ rpc' = [rpc EXCEPT ![self] = "list"]
    /\ UNCHANGED << job, shared, faults, live_mode, messages, idx, ppc, message_id, analysis,
                    status, retry_count, inv >>

\* ------------------------------------------------------ process_message()
\* track_email_processing is entered (lines 271-277) with the given status.
EnterTrack(self, st) ==
    /\ status' = [status EXCEPT ![self] = st]
    /\ retry_count' = [retry_count EXCEPT ![self] = 0]
    /\ ppc' = [ppc EXCEPT ![self] = "insert"]

\* lines 300-304: the idempotency check; a message found recorded is skipped.
check_processed(self) ==
    /\ ppc[self] = "check"
    /\ \E query_ok \in BOOLEAN :
          LET found == is_email_processed(tracking, message_id[self], query_ok) IN
          /\ ~query_ok => MayFail
          /\ Failed(~query_ok)
          /\ ppc' = [ppc EXCEPT ![self] = IF found THEN "ret" ELSE "fetch"]
          /\ inv' = [inv EXCEPT ![self] =
                [@ EXCEPT !.query_failed = ~query_ok, !.skipped = found]]
          /\ pass' = [pass EXCEPT ![self] = [@ EXCEPT !.plain = @ /\ query_ok /\ ~found]]
    /\ UNCHANGED << job, shared, live_mode, rpc, messages, idx, message_id, analysis,
                    status, retry_count >>

\* lines 306-311: the full-detail fetch; when it raises, the except clause of
\* lines 339-341 hands status "error" to the tracker.
fetch_message(self) ==
    /\ ppc[self] = "fetch"
    /\ \E ok \in BOOLEAN :
          /\ ~ok => MayFail
          /\ Failed(~ok)
          /\ inv' = [inv EXCEPT ![self] =
                [@ EXCEPT !.fetch = @ + 1,
                          !.fetch_failed = ~ok,
                          !.track = IF ok THEN @ ELSE @ + 1]]
          /\ pass' = [pass EXCEPT ![self] = [@ EXCEPT !.plain = @ /\ ok]]
          /\ IF ok
             THEN /\ ppc' = [ppc EXCEPT ![self] = "extract"]
                  /\ UNCHANGED << status, retry_count >>
             ELSE EnterTrack(self, ErrorStatus)
    /\ UNCHANGED << job, shared, live_mode, rpc, messages, idx, message_id, analysis >>

\* What messages().get hands to the pipeline: a message with its structure,
\* one without payload, one whose body data is not base64.
SoundMessages ==
    {Plain(<< Header("From", << "J" >>) >>, << >>, Body(TRUE, Data(TRUE, << 7 >>)))}
BrokenMessages ==
    {Message(FALSE, FALSE, << >>, << >>, NoBody),
     Plain(<< >>, << >>, Body(TRUE, Data(FALSE, << 7 >>)))}
FetchedMessages == SoundMessages \cup BrokenMessages

\* lines 313-321: the content is extracted and logged; an exception that left
\* _extract_email_content would reach the except clause of lines 339-341.
extract_content(self) ==
    /\ ppc[self] = "extract"
    /\ \E m \in FetchedMessages :
          LET r == ExtractEmailContent(m) IN
          /\ inv' = [inv EXCEPT ![self] =
                [@ EXCEPT !.malformed = m \in BrokenMessages,
                          !.degraded = r.value = EmptyContent,
                          !.track = IF r.exc = "none" THEN @ ELSE @ + 1]]
          /\ IF r.exc = "none"
             THEN /\ ppc' = [ppc EXCEPT ![self] = "analyze"]
                  /\ UNCHANGED << status, retry_count >>
             ELSE EnterTrack(self, ErrorStatus)
    /\ UNCHANGED << job, shared, faults, live_mode, rpc, messages, idx, message_id,
                    analysis, pass >>

\* lines 323-337: the content is classified; a decision to keep (or no
\* decision) goes to the tracker with status "kept".
analyze_email(self) ==
    /\ ppc[self] = "analyze"
    /\ \E a \in AnalysisValues :
          /\ analysis' = [analysis EXCEPT ![self] = a]
          /\ inv' = [inv EXCEPT ![self] =
                [@ EXCEPT !.classify = @ + 1,
                          !.track = IF ShouldArchive(a) THEN @ ELSE @ + 1]]
          /\ pass' = [pass EXCEPT ![self] =
                [@ EXCEPT !.plain = @ /\ a.kind = "dict"
                                      /\ a.should_archive = [t |-> "bool", v |-> "false"]]]
          /\ IF ShouldArchive(a)
             THEN /\ ppc' = [ppc EXCEPT ![self] = "archive"]
                  /\ UNCHANGED << status, retry_count >>
             ELSE EnterTrack(self, KeptStatus)
    /\ UNCHANGED << job, shared, faults, live_mode, rpc, messages, idx, message_id >>

\* lines 329-334 and archive_email (lines 241-255): the label mutation; its
\* result decides the status handed to the tracker.
archive_email(self) ==
    /\ ppc[self] = "archive"
    /\ \E ok \in BOOLEAN :
          /\ ~ok => MayFail
          /\ Failed(~ok)
          /\ labels' = IF ok
                       THEN [labels EXCEPT ![message_id[self]] = ArchivedLabels(@)]
                       ELSE labels
          /\ inv' = [inv EXCEPT ![self] =
                [@ EXCEPT !.archive = @ + 1, !.archive_ok = ok, !.track = @ + 1]]
          /\ EnterTrack(self, ArchiveStatus(ok))
    /\ archive_calls' = [archive_calls EXCEPT ![message_id[self]] = @ + 1]
    /\ pass' = [pass EXCEPT ![self] = [@ EXCEPT !.archives = @ + 1]]
    /\ UNCHANGED << job, tracking, live_mode, rpc, messages, idx, message_id, analysis >>

\* ------------------------------------------------ track_email_processing()
\* What one insert attempt can do: store the row and answer with data; store
\* the row and answer, without raising, with a result that is empty or has no
\* data attribute (line 284 is then false); raise (nothing stored).
InsertOutcomes == {"data", "empty", "raise"}

\* The answers of the table's client as it is documented: a result object
\* that carries data, or an exception.
ContractOutcomes == {"data", "raise"}

Stores(out) == out \in {"data", "empty"}

Exhausted_never(rc) == rc > max_retries

\* line 290: the attempt that uses up the retries re-raises
Exhausted(rc) == rc = max_retries

\* lines 277-293 and 295-296: one pass through the while loop.
insert_attempt(self, outcomes) ==
    /\ ppc[self] = "insert"
    /\ retry_count[self] < max_retries
    /\ \E out \in outcomes :
          LET rc == IF out = "raise" THEN retry_count[self] + 1 ELSE retry_count[self] IN
          /\ out # "data" => MayFail
          /\ Failed(out # "data")
          /\ tracking' = IF Stores(out)
                         THEN Insert(tracking, message_id[self], status[self])
                         ELSE tracking
          /\ retry_count' = [retry_count EXCEPT ![self] = rc]
          /\ inv' = [inv EXCEPT ![self] =
                [@ EXCEPT !.insert = @ + 1,
                          !.landed = IF Stores(out) THEN @ + 1 ELSE @]]
          /\ pass' = [pass EXCEPT ![self] = [@ EXCEPT !.plain = @ /\ out = "data"]]
          /\ ppc' = [ppc EXCEPT ![self] =
                CASE out = "data" -> "ret"
                  [] out = "raise" /\ Exhausted(rc) -> "ret"
                  [] out = "raise" /\ ~Exhausted(rc) -> "pause"
                  [] OTHER -> "insert"]
    /\ UNCHANGED << job, labels, archive_calls, live_mode, rpc, messages, idx, message_id,
                    analysis, status >>

\* line 293, time.sleep(1), and back to the while condition of line 277.
retry_pause(self) ==
    /\ ppc[self] = "pause"
    /\ inv' = [inv EXCEPT ![self] = [@ EXCEPT !.paused = @ + RETRY_PAUSE]]
    /\ ppc' = [ppc EXCEPT ![self] =
          IF retry_count[self] < max_retries THEN "insert" ELSE "ret"]
    /\ UNCHANGED << job, shared, faults, live_mode, rpc, messages, idx, message_id, analysis,
                    status, retry_count, pass >>

\* process_message has returned (lines 304, 331-341): the for loop moves on,
\* and the locals of the call are gone.
process_message_returns(self) ==
    /\ ppc[self] = "ret"
    /\ ppc' = [ppc EXCEPT ![self] = "none"]
    /\ idx' = [idx EXCEPT ![self] = idx[self] + 1]
    /\ message_id' = [message_id EXCEPT ![self] = NoId]
    /\ analysis' = [analysis EXCEPT ![self] = None]
    /\ status' = [status EXCEPT ![self] = "kept"]
    /\ retry_count' = [retry_count EXCEPT ![self] = 0]
    /\ inv' = [inv EXCEPT ![self] = NewInv(FALSE)]
    /\ UNCHANGED << job, shared, faults, live_mode, rpc, messages, pass >>

\* ------------------------------------------------------ the specification
\* The steps of one instance that are the same whatever the services answer.
Step(self) ==
    \/ run(self)
    \/ call_process_message(self)
    \/ loop_ends(self)
    \/ sleep(self)
    \/ check_processed(self)
    \/ fetch_message(self)
    \/ extract_content(self)
    \/ analyze_email(self)
    \/ archive_email(self)
    \/ retry_pause(self)
    \/ process_message_returns(self)

\* Spec: every call of a service succeeds or raises, and a call that succeeds
\* may answer anything the code has a branch for: a listing with an entry that
\* has no id, an insert result without data.
Next ==
    \E self \in Solo :
        \/ Step(self)
        \/ get_recent_messages(self, Entries)
        \/ loop_raises(self)
        \/ insert_attempt(self, InsertOutcomes)

Spec == Init /\ [][Next]_vars

\* ContractSpec: every call of a service succeeds or raises, and a call that
\* succeeds answers as the service documents: every listed entry has an id,
\* every insert result carries data.
ContractNext ==
    \E self \in Solo :
        \/ Step(self)
        \/ get_recent_messages(self, MsgIds)
        \/ insert_attempt(self, ContractOutcomes)

ContractSpec == Init /\ [][ContractNext]_vars

\* RaceSpec: two instances of the program run against the same table and the
\* same mailbox, their steps interleaved in every order; no call of a service
\* fails, and the mailbox lists the one message m1.
RaceInit ==
    /\ tracking = EmptyBag
    /\ labels = [m \in MsgIds |-> Labels]
    /\ archive_calls = [m \in MsgIds |-> 0]
    /\ faults = MaxFaults
    /\ live_mode = [i \in Instances |-> FALSE]
    /\ rpc = [i \in Instances |-> "idle"]
    /\ messages = [i \in Instances |-> << >>]
    /\ idx = [i \in Instances |-> 1]
    /\ ppc = [i \in Instances |-> "none"]
    /\ message_id = [i \in Instances |-> NoId]
    /\ analysis = [i \in Instances |-> None]
    /\ status = [i \in Instances |-> "kept"]
    /\ retry_count = [i \in Instances |-> 0]
    /\ inv = [i \in Instances |-> NewInv(FALSE)]
    /\ pass = [i \in Instances |-> NewPass]
    /\ job = NoJob

RaceNext ==
    \E self \in Instances :
        \/ run(self)
        \/ get_recent_messages(self, {"m1"})
        \/ call_process_message(self)
        \/ loop_ends(self)
        \/ sleep(self)
        \/ check_processed(self)
        \/ fetch_message(self)
        \/ extract_content(self)
        \/ analyze_email(self)
        \/ archive_email(self)
        \/ insert_attempt(self, {"data"})
        \/ process_message_returns(self)

RaceSpec == RaceInit /\ [][RaceNext]_vars

\* -------------------------------------------- PureSpec: the pure functions
\* The completions the classifier is called with: without API key, with a
\* failing request, and with every text of up to MaxText tokens.
ClassifierCalls ==
    {ClassifierCall(FALSE, TRUE, << >>), ClassifierCall(TRUE, FALSE, << >>)}
    \cup {ClassifierCall(TRUE, TRUE, t) : t \in BoundedSeq(TextTokens, MaxText)}

\* The messages the normalizer is called with.
FromChars == {"J", " ", "<", ">"}

\* one From header of every value of up to MaxFrom characters; none; a name
\* in other case; two of them
SenderMessages ==
    {Plain(<< Header("From", v) >>, << >>, NoBody) : v \in BoundedSeq(FromChars, MaxFrom)}
    \cup {Plain(<< Header("Subject", << "s" >>) >>, << >>, NoBody),
          Plain(<< Header("FROM", << "J", " ", "<", "J", ">" >>) >>, << >>, NoBody),
          Plain(<< Header("Date", << "d" >>), Header("from", << "J" >>),
                   Header("From", << "<", "J", ">" >>) >>, << >>, NoBody)}

PartDatas ==
    {Data(TRUE, << >>), Data(TRUE, << WS >>), Data(TRUE, << BadByte >>), Data(TRUE, << 1 >>),
     Data(TRUE, << WS, 1, WS, WS, 2, BadByte, WS >>), Data(FALSE, << 1 >>)}

BodyDatas == {Data(TRUE, << >>), Data(TRUE, << 7 >>), Data(FALSE, << 7 >>)}

Parts ==
    {Part("text/plain", TRUE, d) : d \in PartDatas}
    \cup {Part("text/plain", FALSE, Data(TRUE, << >>)), Part("text/html", TRUE, Data(TRUE, << 9 >>))}

Bodies == {NoBody, Body(FALSE, Data(TRUE, << >>))} \cup {Body(TRUE, d) : d \in BodyDatas}

\* up to MaxParts parts and a top-level body
PartMessages ==
    {Plain(<< >>, ps, b) : ps \in BoundedSeq(Parts, MaxParts), b \in Bodies}

\* bodies of few words and of about WordLimit words, bare and with more
\* whitespace around, as top-level body and as a part
WordCounts == 0..2 \cup (WordLimit - 1)..MaxWords
Words(n) == [i \in 1..n |-> i]
LongTexts ==
    {Join(Words(n)) : n \in WordCounts}
    \cup {<< WS >> \o Join(Words(n)) \o << WS >> : n \in WordCounts}

LongMessages ==
    {Plain(<< >>, << >>, Body(TRUE, Data(TRUE, t))) : t \in LongTexts}
    \cup {Plain(<< >>, << Part("text/plain", TRUE, Data(TRUE, t)) >>, NoBody) : t \in LongTexts}

\* messages whose structure is not the documented one
MalformedMessages ==
    {Message(FALSE, FALSE, << >>, << >>, NoBody),
     Message(TRUE, FALSE, << >>, << >>, NoBody),
     Plain(<< Header(NoName, << "s" >>) >>, << >>, NoBody),
     Plain(<< Header("Subject", << "s" >>), Header(NoName, << "s" >>) >>, << >>, Body(TRUE, Data(TRUE, << 7 >>))),
     Plain(<< Header("Subject", << "s" >>), Header("From", << "J" >>), Header("Date", << "d" >>),
              Header(NoName, << "s" >>) >>, << >>, NoBody)}

Messages == SenderMessages \cup PartMessages \cup LongMessages \cup MalformedMessages

PureJobs ==
    {NewJob("analyze_email", c) : c \in ClassifierCalls}
    \cup {NewJob("_extract_email_content", m) : m \in Messages}

PureInit == ProgramInit /\ job \in PureJobs

\* A function is called with the argument of the job, a first and a second time.
Apply(fn, result) ==
    /\ job.fn = fn
    /\ job.calls < 2
    /\ job' = [job EXCEPT !.first = IF job.calls = 0 THEN result ELSE @,
                          !.out = result,
                          !.calls = @ + 1]
    /\ UNCHANGED << tracking, labels, faults, archive_calls, live_mode, rpc, messages,
                    idx, ppc, message_id, analysis, status, retry_count, inv, pass >>

apply_analyze_email == Apply("analyze_email", AnalyzeEmail(job.arg))

apply_extract_email_content ==
    Apply("_extract_email_content", ExtractEmailContent(job.arg))

PureNext ==
    \/ apply_analyze_email
    \/ apply_extract_email_content

PureSpec == PureInit /\ [][PureNext]_vars

\* ------------------------------------------------------------- the claims
SaysArchive(a) == a.kind = "dict" /\ a.should_archive = [t |-> "bool", v |-> "true"]

\* should_archive = false, or no decision: None, or a dict without the field
SaysKeepOrNothing(a) == a.should_archive \in {Missing, [t |-> "bool", v |-> "false"]}

\* the tracker has been called and the gating of lines 327-337 is behind
Gated(self) == inv[self].classify = 1 /\ ppc[self] \in {"insert", "pause", "ret"}

\* C1: an invocation of process_message for a message id that had a row in
\* the table when it was called makes no fetch, no classification, no archive
\* call and no insert attempt.
C1_Idempotent ==
    \A self \in Instances :
        inv[self].had =>
            /\ inv[self].fetch = 0
            /\ inv[self].classify = 0
            /\ inv[self].archive = 0
            /\ inv[self].insert = 0

\* C2: the table never holds more than one row for a message id.
C2_AtMostOneRecord == \A m \in MsgIds : RowCount(tracking, m) <= 1

\* C3: over all passes and runs archive_email is called at most once for a
\* message id.
C3_ArchiveAtMostOnce == \A m \in MsgIds : archive_calls[m] <= 1

\* C4: once a fetched message is classified, should_archive = true means one
\* archive_email call and the status "archived" or "archive_failed" by that
\* call's result; should_archive = false or no decision means no archive_email
\* call and the status "kept"; the tracker is called once, with that status.
C4_DecisionGating ==
    \A self \in Instances :
        Gated(self) =>
            /\ inv[self].track = 1
            /\ SaysArchive(analysis[self]) =>
                  /\ inv[self].archive = 1
                  /\ status[self] = IF inv[self].archive_ok THEN "archived"
                                                             ELSE "archive_failed"
            /\ SaysKeepOrNothing(analysis[self]) =>
                  /\ inv[self].archive = 0
                  /\ status[self] = "kept"

C4_Witness ==
    \E self \in Instances :
        /\ ppc[self] = "ret"
        /\ SaysArchive(analysis[self])
        /\ inv[self].archive = 1
        /\ status[self] = "archive_failed"

\* C5: when process_message returns for a message it did not skip, it has
\* written exactly one row.
C5_ExactlyOneRecord ==
    \A self \in Instances :
        (ppc[self] = "ret" /\ ~inv[self].skipped) => inv[self].landed = 1

\* every insert attempt of the tracker call so far has raised
AllRaised(self) == inv[self].insert = retry_count[self]

\* C6: a tracker call whose insert attempts all raise makes max_retries
\* attempts, sleeps RETRY_PAUSE before each attempt but the first and not
\* after the last, writes no row, and returns to process_message's caller.
C6_RetryBound ==
    \A self \in Instances :
        (inv[self].track = 1 /\ AllRaised(self)) =>
            /\ ppc[self] = "insert" => inv[self].paused = retry_count[self] * RETRY_PAUSE
            /\ ppc[self] = "pause" => inv[self].paused = (retry_count[self] - 1) * RETRY_PAUSE
            /\ ppc[self] = "ret" =>
                  /\ inv[self].insert = max_retries
                  /\ inv[self].paused = (max_retries - 1) * RETRY_PAUSE
                  /\ inv[self].landed = 0
                  /\ rpc[self] = "iter"

C6_Witness ==
    \E self \in Instances :
        /\ ppc[self] = "ret"
        /\ inv[self].track = 1
        /\ inv[self].insert = max_retries
        /\ retry_count[self] = max_retries
        /\ inv[self].paused = (max_retries - 1) * RETRY_PAUSE
        /\ inv[self].landed = 0

\* after a failed fetch: no classification, no archive call, one tracker call
\* with status "error", and the pass goes on
C7_AfterFailedFetch ==
    \A self \in Instances :
        inv[self].fetch_failed =>
            /\ inv[self].classify = 0
            /\ inv[self].archive = 0
            /\ inv[self].track = 1
            /\ status[self] = "error"
            /\ ppc[self] \in {"insert", "pause", "ret"}
            /\ rpc[self] = "iter"

\* the return of such an invocation moves the for loop to the next candidate
C7_MovesOn ==
    \A self \in Instances :
        (inv[self].fetch_failed /\ ppc[self] = "ret" /\ ppc'[self] # "ret") =>
            /\ ppc'[self] = "none"
            /\ rpc'[self] = "iter"
            /\ messages'[self] = messages[self]
            /\ idx'[self] = idx[self] + 1

\* C7: after a failed fetch nothing is classified or archived, the tracker is
\* called once, with status "error", and when it returns the for loop moves to
\* the next candidate of the same pass.
C7_ErrorIsolated == []C7_AfterFailedFetch /\ [][C7_MovesOn]_vars

C7_Witness ==
    \E self \in Instances :
        /\ inv[self].fetch_failed
        /\ ppc[self] = "ret"
        /\ inv[self].landed = 1
        /\ idx[self] < Len(messages[self])

\* the entries of s before its first entry without an id
UpToNoId(s) ==
    LET bad == {i \in 1..Len(s) : s[i] = NoId}
        stop == IF bad = {} THEN Len(s) + 1 ELSE CHOOSE i \in bad : \A j \in bad : i <= j
    IN SubSeq(s, 1, stop - 1)

\* scenario A: nothing was recorded before, nothing failed, every decision was
\* should_archive = false: one "kept" row per candidate, no archive call
KeptAll(self) ==
    /\ pass[self].archives = 0
    /\ \A k \in 1..Len(messages[self]) :
          RowsOf(tracking, messages[self][k]) = SetToBag({Row(messages[self][k], "kept")})

C9_LiveState ==
    \A self \in Instances :
        live_mode[self] =>
            /\ rpc[self] # "done"
            /\ (rpc[self] = "list" /\ pass[self].lists > 0) =>
                  pass[self].napped = CHECK_FREQUENCY
            /\ rpc[self] \in {"iter", "sleep"} => pass[self].napped = 0

\* a live pass ends in the sleep, and the sleep ends in the listing
C9_LiveStep ==
    \A self \in Instances :
        /\ (live_mode[self] /\ rpc[self] = "iter" /\ rpc'[self] # "iter") =>
              rpc'[self] = "sleep"
        /\ (rpc[self] = "sleep" /\ rpc'[self] # "sleep") => rpc'[self] = "list"

\* C9: a live run is never done; when a pass ends, by the end of the for loop
\* or in the except clause, the run sleeps CHECK_FREQUENCY once and lists again.
C9_LiveNeverStops == []C9_LiveState /\ [][C9_LiveStep]_vars

C9_Witness ==
    \E self \in Instances :
        /\ live_mode[self]
        /\ rpc[self] = "list"
        /\ pass[self].aborted
        /\ pass[self].napped = CHECK_FREQUENCY

\* C10: when the select of is_email_processed raises, the message is not
\* skipped: it is fetched, classified if the fetch succeeds, and handed to the
\* tracker, also when the table already holds a row for it.
C10_FailOpen ==
    \A self \in Instances :
        inv[self].query_failed =>
            /\ ~inv[self].skipped
            /\ ppc[self] \in {"fetch", "extract", "analyze", "archive", "insert", "pause", "ret"}
            /\ ppc[self] # "fetch" => inv[self].fetch = 1
            /\ ppc[self] = "ret" =>
                  /\ inv[self].track = 1
                  /\ inv[self].insert >= 1
                  /\ ~inv[self].fetch_failed => inv[self].classify = 1

C10_Witness ==
    \E self \in Instances :
        /\ inv[self].had
        /\ inv[self].query_failed
        /\ ppc[self] = "ret"
        /\ inv[self].classify = 1
        /\ inv[self].landed = 1
        /\ RowCount(tracking, message_id[self]) = 2

\* the text of a finished classifier call, and what line 229 cuts from it
Analyzed == job.fn = "analyze_email" /\ job.calls > 0
NoBracePair(t) == find(t, "{") = -1 \/ rfind(t, "}") < find(t, "{")
LacksField(t) == IsJsonObject(Clean(t)) /\ loads(Clean(t)).should_archive = Missing

\* C11 as it was stated: a text without a brace pair, a text that is not JSON
\* between the first '{' and the last '}', and a JSON object without the
\* should_archive field all make analyze_email return None, without raising.
C11_Original ==
    (Analyzed /\ job.arg.key /\ job.arg.request_ok) =>
        ((\/ NoBracePair(job.arg.text)
          \/ ~IsJsonObject(Clean(job.arg.text))
          \/ LacksField(job.arg.text))
            => job.out = Returned(None))

\* C11, amended: analyze_email never raises; without API key, on a failed
\* request, for a text without a brace pair and for a text that is not JSON
\* between the first '{' and the last '}' it returns None; for a JSON object
\* without the should_archive field it returns that object, which line 327
\* treats as no decision to archive.
C11_MalformedOutput ==
    Analyzed =>
        /\ job.out.exc = "none"
        /\ (~job.arg.key \/ ~job.arg.request_ok) => job.out.value = None
        /\ (job.arg.key /\ job.arg.request_ok) =>
              /\ (NoBracePair(job.arg.text) \/ ~IsJsonObject(Clean(job.arg.text)))
                    => job.out.value = None
              /\ LacksField(job.arg.text) =>
                    /\ job.out.value = [kind |-> "dict", should_archive |-> Missing]
                    /\ ~ShouldArchive(job.out.value)

C11_Witness ==
    /\ Analyzed
    /\ job.arg.text = << "x", "{", "O", "}" >>
    /\ job.out.value = [kind |-> "dict", should_archive |-> Missing]

\* a finished call of the normalizer
Extracted == job.fn = "_extract_email_content" /\ job.calls > 0

\* the decoded body text of a message of LongMessages
BodyText(m) == Decode(IF m.parts = << >> THEN m.body.data ELSE m.parts[1].data)

\* C15: a body of n words is normalized to its first min(n, WordLimit) words,
\* in their order, and a second normalization of the same message gives the
\* same record.
C15_Truncation ==
    (Extracted /\ job.arg \in LongMessages) =>
        LET original == Split(BodyText(job.arg))
            n == Len(original)
            k == IF n < WordLimit THEN n ELSE WordLimit
        IN /\ job.out.exc = "none"
           /\ Len(Split(job.out.value.body)) = k
           /\ Split(job.out.value.body) = SubSeq(original, 1, k)
           /\ job.calls = 2 => job.out = job.first

C15_Witness ==
    /\ Extracted
    /\ job.arg \in LongMessages
    /\ Len(Split(BodyText(job.arg))) = WordLimit + 1
    /\ Len(Split(job.out.value.body)) = WordLimit
    /\ job.calls = 2

\* the first From header of a message of SenderMessages, 0 for none
FromAt(m) == First({i \in 1..Len(m.headers) : Lower(m.headers[i].name) = "from"})

HasPair(h) == \E i, j \in 1..Len(h) : i < j /\ h[i] = "<" /\ h[j] = ">"

\* the first '<' of h and the first '>' after it
Open(h) == First({i \in 1..Len(h) : h[i] = "<"})
Close(h) == CHOOSE j \in (Open(h) + 1)..Len(h) :
                /\ h[j] = ">"
                /\ \A i \in (Open(h) + 1)..(j - 1) : h[i] # ">"

\* C16: without a From header both sender fields are empty; a From value
\* with a '<...>' pair gives the trimmed text before the first '<' as name and
\* the text between that '<' and the following '>' as address; a From value
\* without such a pair gives an empty name and the trimmed value as address.
C16_SenderParsing ==
    (Extracted /\ job.arg \in SenderMessages) =>
        LET at == FromAt(job.arg)
            h == job.arg.headers[at].value
            got == job.out.value
        IN IF at = 0
           THEN got.sender_name = << >> /\ got.sender_email = << >>
           ELSE IF HasPair(h)
                THEN /\ got.sender_name = Strip(SubSeq(h, 1, Open(h) - 1), " ")
                     /\ got.sender_email = Strip(SubSeq(h, Open(h) + 1, Close(h) - 1), " ")
                ELSE /\ got.sender_name = << >>
                     /\ got.sender_email = Strip(h, " ")

\* every inline data of the message is base64
Decodable(m) ==
    /\ \A i \in 1..Len(m.parts) : m.parts[i].data.b64_ok
    /\ m.body.data.b64_ok

\* C20: the body comes from the first top-level text/plain part with inline
\* data; from the top-level body's data only when there is no such part; and
\* it is empty when there is neither.
C20_BodySource ==
    (Extracted /\ job.arg \in PartMessages /\ Decodable(job.arg)) =>
        LET m == job.arg
            p == First({i \in 1..Len(m.parts) :
                           m.parts[i].mimeType = "text/plain" /\ m.parts[i].has_data})
        IN job.out.value.body =
              IF p # 0 THEN CleanAndLimit(Decode(m.parts[p].data))
              ELSE IF m.body.present /\ m.body.has_data
                   THEN CleanAndLimit(Decode(m.body.data))
                   ELSE << >>

\* C12: a fetched message, also one without its structure, is normalized
\* without an exception, to the empty record if the structure is missing; the
\* pipeline goes on to the classification, and the tracker is called once,
\* with "kept", "archived" or "archive_failed" and never with "error".
C12_NormalizerNeverFails ==
    \A self \in Instances :
        /\ inv[self].malformed => inv[self].degraded
        /\ (inv[self].fetch = 1 /\ ~inv[self].fetch_failed
                /\ ppc[self] \notin {"fetch", "extract"}) =>
              /\ ppc[self] \in {"analyze", "archive", "insert", "pause", "ret"}
              /\ ppc[self] # "analyze" => inv[self].classify = 1
              /\ ppc[self] \in {"insert", "pause", "ret"} =>
                    /\ inv[self].track = 1
                    /\ status[self] \in {"kept", "archived", "archive_failed"}

C12_Witness ==
    \E self \in Instances :
        /\ inv[self].malformed
        /\ inv[self].degraded
        /\ inv[self].classify = 1
        /\ ppc[self] = "ret"
        /\ status[self] = "archived"
        /\ inv[self].landed = 1

\* a pass whose listing call raised has no candidates: nothing is processed,
\* and a batch run alone reaches the end of the run
C13_AfterFailedListing ==
    \A self \in Instances :
        pass[self].list_failed =>
            /\ messages[self] = << >>
            /\ pass[self].processed = << >>
            /\ ~pass[self].aborted
            /\ ppc[self] = "none"
            /\ rpc[self] \in {"iter", "sleep", "list", "done"}
            /\ rpc[self] = "done" <=> (~live_mode[self] /\ rpc[self] # "iter")

\* such a pass writes no row and ends as an empty pass does
C13_EmptyPass ==
    \A self \in Instances :
        (pass[self].list_failed /\ rpc[self] = "iter") =>
            /\ tracking' = tracking
            /\ labels' = labels
            /\ rpc'[self] # "iter" =>
                  rpc'[self] = IF live_mode[self] THEN "sleep" ELSE "done"

\* C13: when the listing call raises, get_recent_messages returns the empty
\* list: the pass processes no message and writes no row, a batch run stops
\* and a live run sleeps and lists again.
C13_ListingFailureNotFatal == []C13_AfterFailedListing /\ [][C13_EmptyPass]_vars

C13_Witness ==
    \E self \in Instances :
        /\ pass[self].list_failed
        /\ live_mode[self]
        /\ rpc[self] = "list"
        /\ pass[self].napped = CHECK_FREQUENCY
        /\ tracking = EmptyBag

\* the step in which archive_email is called and returns
ArchiveStep(self) == ppc[self] = "archive" /\ ppc'[self] # "archive"

\* a label set changes only in a successful archive_email call for its
\* message, and then it loses "INBOX" and "UNREAD" and nothing else
C14_OnlyTarget ==
    \A m \in MsgIds :
        labels'[m] # labels[m] =>
            \E self \in Instances :
                /\ ArchiveStep(self)
                /\ message_id[self] = m
                /\ inv'[self].archive_ok
                /\ labels'[m] = labels[m] \ {"INBOX", "UNREAD"}

\* the call returns true with the two labels gone, or false with no label
\* changed, and never leaves through an exception
C14_Result ==
    \A self \in Instances :
        ArchiveStep(self) =>
            /\ ppc'[self] = "insert"
            /\ status'[self] = IF inv'[self].archive_ok THEN "archived" ELSE "archive_failed"
            /\ inv'[self].archive_ok =>
                  labels'[message_id[self]] \cap {"INBOX", "UNREAD"} = {}
            /\ ~inv'[self].archive_ok => labels' = labels

\* C14: archive_email removes "INBOX" and "UNREAD" from the target message,
\* adds no label, leaves every other label and every other message as it is,
\* returns true on success and, on a mutation error, false without raising
\* and without a label changed.
C14_ArchiveFrame == [][C14_OnlyTarget /\ C14_Result]_vars

C14_Witness ==
    \E self \in Instances :
        /\ ppc[self] = "insert"
        /\ inv[self].archive = 1
        /\ inv[self].archive_ok
        /\ labels[message_id[self]] = {"STARRED"}
        /\ \E m \in MsgIds : labels[m] = {"INBOX", "UNREAD", "STARRED"}

\* C17: a call of track_email_processing makes at most max_retries insert
\* attempts, whatever an attempt gives: an exception, a result with data, or
\* a result without data.
C17_TrackerBound == \A self \in Instances : inv[self].insert <= max_retries

\* C18: archive_email is called only after a decision whose should_archive is
\* the boolean true.
C18_BooleanOnly ==
    \A self \in Instances :
        inv[self].archive > 0 =>
            analysis[self].should_archive = [t |-> "bool", v |-> "true"]

\* the check of an instance answers by the rows of the table alone, whatever
\* another instance is doing for the same id
C19_CheckSeesOnlyTable ==
    \A self \in Instances :
        (ppc[self] = "check" /\ ppc'[self] # "check") =>
            ppc'[self] = IF RowCount(tracking, message_id[self]) > 0 THEN "ret" ELSE "fetch"

\* the insert of an instance adds its row, whatever rows the id has by then
C19_InsertAddsRow ==
    \A self \in Instances :
        (ppc[self] = "insert" /\ ppc'[self] # "insert") =>
            RowCount(tracking', message_id[self]) = RowCount(tracking, message_id[self]) + 1

\* C19: the check and the insert of process_message are separate steps with
\* nothing between two instances but the table: an instance that checks an id
\* before the other has inserted it processes the id too and inserts a second
\* row.
C19_CheckThenInsertRace == [][C19_CheckSeesOnlyTable /\ C19_InsertAddsRow]_vars

\* both instances found the id unrecorded, fetched, classified, called
\* archive_email and inserted a row
C19_Witness ==
    /\ message_id["A"] = message_id["B"]
    /\ RowCount(tracking, message_id["A"]) = 2
    /\ archive_calls[message_id["A"]] = 2
    /\ \A self \in Instances :
          /\ ppc[self] = "ret"
          /\ ~inv[self].had /\ ~inv[self].skipped /\ ~inv[self].query_failed
          /\ inv[self].fetch = 1
          /\ inv[self].classify = 1
          /\ inv[self].archive = 1
          /\ inv[self].landed = 1

====
